---- MODULE Spec2Model ----
(***************************************************************************)
(* Microstock metadata compliance engine: validateMetadata of the          *)
(* validator service, followed statement by statement.                     *)
(*                                                                         *)
(* A JavaScript string is a sequence of one-character strings, a string[]  *)
(* a sequence of such sequences.  The local `score` is a double that only  *)
(* ever holds multiples of 0.5; it is kept in units of half a point (so    *)
(* 100 is 200 and a penalty of 1.5 is 3) until Math.round turns it into    *)
(* whole points.                                                           *)
(***************************************************************************)
EXTENDS Integers, Sequences, FiniteSets, Bags, TLC

VARIABLES
  metadata,         \* the argument of the running / last call
  pc,               \* position inside validateMetadata
  issues,           \* local  const issues: ValidationIssue[]
  recommendations,  \* local  const recommendations: string[]
  score,            \* local  let score (half points before "clamp", points after)
  foundBanned,      \* local  const foundBanned
  result,           \* << >> while the call runs, <<returned value>> after
  saved,            \* << >> or <<[metadata, result]>> of one earlier call
  other,            \* << >> or <<the locals of a second caller that is not running>>
  parsed,           \* << >> or <<the JSON payload generateMetadata received>>
  hasApiKey,        \* App state: const [hasApiKey, setHasApiKey] = useState(false)
  isGenerating,
  isGeneratingMetadata,
  isAnalyzingQuality,
  error,            \* null or the message shown
  currentImage,     \* << >> for null, or <<image>>
  history,          \* the images, newest first
  activeTab,
  pending,          \* the bag of the external calls awaited
  uuids,            \* how many ids crypto.randomUUID() has given out
  lastSettled       \* << >> or <<[call, outcome]>> if the last step settled a call

appVars == <<hasApiKey, isGenerating, isGeneratingMetadata, isAnalyzingQuality, error,
             currentImage, history, activeTab, pending, uuids, lastSettled>>

\* What no step of validateMetadata touches.
outside == <<other, parsed, appVars>>

validatorVars == <<metadata, pc, issues, recommendations, score, foundBanned, result,
                   saved, other, parsed>>

vars == <<metadata, pc, issues, recommendations, score, foundBanned, result, saved, outside>>

-----------------------------------------------------------------------------
(* String primitives of the JavaScript runtime used by the validator.      *)

WhiteSpace == {" ", "\t", "\n"}

UpperAlpha == <<"A","B","C","D","E","F","G","H","I","J","K","L","M","N","O","P","Q","R","S","T","U","V","W","X","Y","Z">>
LowerAlpha == <<"a","b","c","d","e","f","g","h","i","j","k","l","m","n","o","p","q","r","s","t","u","v","w","x","y","z">>

toLowerCaseChar(c) ==
  IF \E i \in 1..26 : UpperAlpha[i] = c
    THEN LowerAlpha[CHOOSE i \in 1..26 : UpperAlpha[i] = c]
    ELSE c

toLowerCase(s) == [i \in 1..Len(s) |-> toLowerCaseChar(s[i])]

trim(s) ==
  LET keep == {i \in 1..Len(s) : s[i] \notin WhiteSpace}
  IN IF keep = {} THEN << >>
     ELSE SubSeq(s, CHOOSE i \in keep : \A j \in keep : i <= j,
                    CHOOSE i \in keep : \A j \in keep : i >= j)

startsWith(s, t) == Len(t) <= Len(s) /\ SubSeq(s, 1, Len(t)) = t
includes(s, t) ==
  \E i \in 1..(Len(s) - Len(t) + 1) : \A j \in 1..Len(t) : s[i + j - 1] = t[j]

\* s.split(/\s+/): the pieces between the maximal runs of white space; a run
\* at either end leaves an empty piece there, and "" splits into [""].
split(s) ==
  LET blank(i) == s[i] \in WhiteSpace
      starts == {i \in 1..Len(s) : ~blank(i) /\ (i = 1 \/ blank(i - 1))}
      start(n) == CHOOSE i \in starts : Cardinality({j \in starts : j < i}) = n - 1
      end(i) == CHOOSE e \in i..Len(s) :
                  (\A j \in i..e : ~blank(j)) /\ (e = Len(s) \/ blank(e + 1))
      pieces == [n \in 1..Cardinality(starts) |-> SubSeq(s, start(n), end(start(n)))]
  IN IF s = << >> THEN << << >> >>
     ELSE (IF blank(1) THEN << << >> >> ELSE << >>)
          \o pieces
          \o (IF blank(Len(s)) THEN << << >> >> ELSE << >>)

\* Math.round on a value held in half points: floor(x + 0.5).
MathFloor(half) == half \div 2
MathRound(half) == (half + 1) \div 2

MathMin(a, b) == IF a <= b THEN a ELSE b
MathMax(a, b) == IF a >= b THEN a ELSE b

-----------------------------------------------------------------------------
BANNED_KEYWORDS ==
  <<
     <<"i","p","h","o","n","e">>,
     <<"i","p","a","d">>,
     <<"a","p","p","l","e">>,
     <<"m","a","c","b","o","o","k">>,
     <<"i","o","s">>,
     <<"a","i","r","p","o","d","s">>,
     <<"a","n","d","r","o","i","d">>,
     <<"g","o","o","g","l","e">>,
     <<"p","i","x","e","l">>,
     <<"s","a","m","s","u","n","g">>,
     <<"g","a","l","a","x","y">>,
     <<"w","i","n","d","o","w","s">>,
     <<"m","i","c","r","o","s","o","f","t">>,
     <<"f","a","c","e","b","o","o","k">>,
     <<"i","n","s","t","a","g","r","a","m">>,
     <<"t","w","i","t","t","e","r">>,
     <<"t","i","k","t","o","k">>,
     <<"w","h","a","t","s","a","p","p">>,
     <<"y","o","u","t","u","b","e">>,
     <<"l","i","n","k","e","d","i","n">>,
     <<"a","d","o","b","e">>,
     <<"p","h","o","t","o","s","h","o","p">>,
     <<"i","l","l","u","s","t","r","a","t","o","r">>,
     <<"z","o","o","m">>,
     <<"s","k","y","p","e">>,
     <<"b","m","w">>,
     <<"m","e","r","c","e","d","e","s">>,
     <<"a","u","d","i">>,
     <<"t","e","s","l","a">>,
     <<"f","e","r","r","a","r","i">>,
     <<"p","o","r","s","c","h","e">>,
     <<"l","a","m","b","o","r","g","h","i","n","i">>,
     <<"t","o","y","o","t","a">>,
     <<"h","o","n","d","a">>,
     <<"f","o","r","d">>,
     <<"j","e","e","p">>,
     <<"n","i","k","e">>,
     <<"a","d","i","d","a","s">>,
     <<"p","u","m","a">>,
     <<"r","e","e","b","o","k">>,
     <<"g","u","c","c","i">>,
     <<"p","r","a","d","a">>,
     <<"l","o","u","i","s"," ","v","u","i","t","t","o","n">>,
     <<"c","h","a","n","e","l">>,
     <<"z","a","r","a">>,
     <<"h","&","m">>,
     <<"d","i","s","n","e","y">>,
     <<"m","a","r","v","e","l">>,
     <<"d","c"," ","c","o","m","i","c","s">>,
     <<"s","t","a","r"," ","w","a","r","s">>,
     <<"l","e","g","o">>,
     <<"b","a","r","b","i","e">>,
     <<"h","o","t"," ","w","h","e","e","l","s">>,
     <<"n","e","r","f">>,
     <<"m","i","c","k","e","y"," ","m","o","u","s","e">>,
     <<"c","o","c","a","-","c","o","l","a">>,
     <<"p","e","p","s","i">>,
     <<"c","o","k","e">>,
     <<"m","c","d","o","n","a","l","d","s">>,
     <<"s","t","a","r","b","u","c","k","s">>,
     <<"k","f","c">>,
     <<"b","u","r","g","e","r"," ","k","i","n","g">>,
     <<"c","a","n","o","n">>,
     <<"n","i","k","o","n">>,
     <<"s","o","n","y">>,
     <<"f","u","j","i","f","i","l","m">>,
     <<"l","e","i","c","a">>,
     <<"g","o","p","r","o">>
  >>

\* The message templates; the values interpolated into a message are kept
\* beside its template (numbers in nums, strings in strs).
MsgTitleTooLong ==
  "Title is too long (${titleLen}/70 chars). It will be truncated on Adobe Stock."
MsgTitleTooShort ==
  "Title is too short. Use descriptive phrases for better SEO."
MsgTitleWords ==
  "Title word count is low (< 5 words)."
MsgDescription ==
  "Description is very sparse. Aim for 2-3 complete sentences."
MsgKeywordsMissing ==
  "Found only ${keywordCount} keywords. Minimum 30 required for optimal visibility."
MsgKeywordsExtra ==
  "Found ${keywordCount} keywords. Max 50 allowed on most platforms."
MsgDuplicates ==
  "Found ${diff} duplicate keywords."
MsgTooShort ==
  "${tooShortKeywords.length} keywords are very short/generic (e.g. \"${tooShortKeywords[0]}\")."
MsgBanned ==
  "Potential Trademark/Brand Violation: ${foundBanned.join(', ')}. Commercial stock must be free of brands."
MsgIsAI ==
  "isAI flag is false. Most platforms now require marking AI content explicitly."
MsgAuthor ==
  "Author field does not contain dynamic placeholder."
RecAddKeywords ==
  "Add ${missing} more keywords to reach the minimum of 30."
RecRemoveKeywords ==
  "Remove ${extra} least relevant keywords."
RecDuplicates ==
  "Remove duplicate keywords to save space for unique terms."
RecTooShort ==
  "Replace short 2-letter keywords with more specific terms."
RecBanned ==
  "Remove all instances of: ${foundBanned.join(', ')}."

Issue(type, text, nums, strs, field) ==
  [type |-> type, message |-> [text |-> text, nums |-> nums, strs |-> strs], field |-> field]

Recommendation(text, nums, strs) == [text |-> text, nums |-> nums, strs |-> strs]

-----------------------------------------------------------------------------
(* The values validateMetadata computes from its argument m.               *)

titleLen(m) == Len(m.title)

titleWords(m) == Len(split(m.title))

descWords(m) == Len(split(m.description))

\* titleLen > 70,  titleLen < 20  (tried in the else branch)  and  titleWords < 5
titleTooLong(m) == titleLen(m) > 70
titleTooShort(m) == titleLen(m) < 20
titleWordsLowElse(m) == ~titleTooLong(m) /\ ~titleTooShort(m) /\ titleWords(m) < 5
titleWordsLow(m) == titleWords(m) < 5

keywordCount(m) == Len(m.keywords)

\* keywordCount < 30  and  keywordCount > 50
tooFewKeywordsInclusive(count) == count <= 30
tooFewKeywords(count) == count < 30
tooManyKeywordsInclusive(count) == count >= 50
tooManyKeywords(count) == count > 50

uniqueKeywordsUntrimmed(m) ==
  {toLowerCase(m.keywords[i]) : i \in 1..Len(m.keywords)}
uniqueKeywords(m) ==
  {trim(toLowerCase(m.keywords[i])) : i \in 1..Len(m.keywords)}

tooShortKeywordsInclusive(m) == SelectSeq(m.keywords, LAMBDA k : Len(k) <= 3)
tooShortKeywords(m) == SelectSeq(m.keywords, LAMBDA k : Len(k) < 3)

lowerTitle(m) == toLowerCase(m.title)
lowerDesc(m) == toLowerCase(m.description)
lowerKeywords(m) == [i \in 1..Len(m.keywords) |-> toLowerCase(m.keywords[i])]

\* BANNED_KEYWORDS.filter(banned => lowerKeywords.some(k => k.includes(banned))
\*                                 || lowerTitle.includes(banned)
\*                                 || lowerDesc.includes(banned))
isBannedInWholeWords(lowerT, lowerD, lowerK, banned) ==
  \/ \E i \in 1..Len(lowerK) : lowerK[i] = banned
  \/ banned \in {split(lowerT)[i] : i \in 1..Len(split(lowerT))}
  \/ banned \in {split(lowerD)[i] : i \in 1..Len(split(lowerD))}
isBannedIn(lowerT, lowerD, lowerK, banned) ==
  \/ \E i \in 1..Len(lowerK) : includes(lowerK[i], banned)
  \/ includes(lowerT, banned)
  \/ includes(lowerD, banned)

filterBanned(m) ==
  LET lowerT == lowerTitle(m)
      lowerD == lowerDesc(m)
      lowerK == lowerKeywords(m)
  IN SelectSeq(BANNED_KEYWORDS, LAMBDA banned : isBannedIn(lowerT, lowerD, lowerK, banned))

\* Penalties, in half points.
titleLongPenalty == 15 * 2
titleShortPenalty == 5 * 2
titleWordsPenalty == 5 * 2
descPenaltyHalfPoint == 2 \div 2
descPenalty == 10 * 2
missingPenaltyRounded(missing) == 2 * MathRound(missing * 3)
missingPenalty(missing) == missing * 3
extraPenalty(extra) == (extra * 2) * 2
duplicatePenalty(diff) == (diff * 3) * 2
bannedPenaltyFlat(found) == 25 * 2
bannedPenalty(found) == (25 * Len(found)) * 2
isAIPenaltyHalved == 5 * 2
isAIPenalty == 10 * 2

\* Math.max(0, Math.min(100, Math.round(score))): half points in, points out.
clampScoreNoFloor(s) == MathMin(100, MathRound(s))
clampScore(s) == MathMax(0, MathMin(100, MathRound(s)))

\* The literals  []  and  100  the locals start from.
hoistedIssues == issues
newIssues == << >>
hoistedRecommendations == recommendations
newRecommendations == << >>
newScore == 100 * 2

-----------------------------------------------------------------------------
(* validateMetadata, one action per block of the function body.            *)

\* The technical checks moved in front of the description check.
GotoTechnicalFirst(label) ==
  pc' = CASE label = "description" -> "isAI"
          [] label = "clamp" -> "description"
          [] label = "isAI" -> "clamp"
          [] OTHER -> label
Goto(label) == pc' = label

\* const issues = []; const recommendations = []; let score = 100;
Enter ==
  /\ pc = "enter"
  /\ issues' = newIssues
  /\ recommendations' = newRecommendations
  /\ score' = newScore
  /\ Goto("title")
  /\ UNCHANGED <<metadata, foundBanned, result, saved, outside>>

TitleLength ==
  /\ pc = "title"
  /\ IF titleTooLong(metadata)
       THEN /\ issues' = Append(issues, Issue("error",
                   MsgTitleTooLong,
                   <<titleLen(metadata)>>, << >>, "title"))
            /\ score' = score - titleLongPenalty
       ELSE IF titleTooShort(metadata)
         THEN /\ issues' = Append(issues, Issue("warning",
                     MsgTitleTooShort,
                     << >>, << >>, "title"))
              /\ score' = score - titleShortPenalty
         ELSE UNCHANGED <<issues, score>>
  /\ Goto("titleWords")
  /\ UNCHANGED <<metadata, recommendations, foundBanned, result, saved, outside>>

TitleWords ==
  /\ pc = "titleWords"
  /\ IF titleWordsLow(metadata)
       THEN /\ issues' = Append(issues, Issue("warning",
                   MsgTitleWords, << >>, << >>, "title"))
            /\ score' = score - titleWordsPenalty
       ELSE UNCHANGED <<issues, score>>
  /\ Goto("description")
  /\ UNCHANGED <<metadata, recommendations, foundBanned, result, saved, outside>>

Description ==
  /\ pc = "description"
  /\ IF descWords(metadata) < 10
       THEN /\ issues' = Append(issues, Issue("warning",
                   MsgDescription,
                   << >>, << >>, "description"))
            /\ score' = score - descPenalty
       ELSE UNCHANGED <<issues, score>>
  /\ Goto("keywordCount")
  /\ UNCHANGED <<metadata, recommendations, foundBanned, result, saved, outside>>

KeywordCount ==
  /\ pc = "keywordCount"
  /\ IF tooFewKeywords(keywordCount(metadata))
       THEN LET missing == 30 - keywordCount(metadata)
            IN /\ issues' = Append(issues, Issue("error",
                      MsgKeywordsMissing,
                      <<keywordCount(metadata)>>, << >>, "keywords"))
               /\ score' = score - missingPenalty(missing)
               /\ recommendations' = Append(recommendations,
                      Recommendation(RecAddKeywords, <<missing>>, << >>))
       ELSE IF tooManyKeywords(keywordCount(metadata))
         THEN LET extra == keywordCount(metadata) - 50
              IN /\ issues' = Append(issues, Issue("error",
                        MsgKeywordsExtra,
                        <<keywordCount(metadata)>>, << >>, "keywords"))
                 /\ score' = score - extraPenalty(extra)
                 /\ recommendations' = Append(recommendations,
                        Recommendation(RecRemoveKeywords, <<extra>>, << >>))
         ELSE UNCHANGED <<issues, score, recommendations>>
  /\ Goto("duplicates")
  /\ UNCHANGED <<metadata, foundBanned, result, saved, outside>>

Duplicates ==
  /\ pc = "duplicates"
  /\ IF Cardinality(uniqueKeywords(metadata)) # Len(metadata.keywords)
       THEN LET diff == Len(metadata.keywords) - Cardinality(uniqueKeywords(metadata))
            IN /\ issues' = Append(issues, Issue("warning",
                      MsgDuplicates, <<diff>>, << >>, "keywords"))
               /\ score' = score - duplicatePenalty(diff)
               /\ recommendations' = Append(recommendations,
                      Recommendation(RecDuplicates, << >>, << >>))
       ELSE UNCHANGED <<issues, score, recommendations>>
  /\ Goto("tooShort")
  /\ UNCHANGED <<metadata, foundBanned, result, saved, outside>>

\* The info issue without its recommendation.
TooShortNoAdvice ==
  /\ pc = "tooShort"
  /\ IF Len(tooShortKeywords(metadata)) > 3
       THEN issues' = Append(issues, Issue("info",
                MsgTooShort,
                <<Len(tooShortKeywords(metadata))>>, <<tooShortKeywords(metadata)[1]>>, "keywords"))
       ELSE UNCHANGED issues
  /\ Goto("compliance")
  /\ UNCHANGED <<metadata, recommendations, score, foundBanned, result, saved, outside>>

TooShort ==
  /\ pc = "tooShort"
  /\ IF Len(tooShortKeywords(metadata)) > 3
       THEN /\ issues' = Append(issues, Issue("info",
                   MsgTooShort,
                   <<Len(tooShortKeywords(metadata))>>, <<tooShortKeywords(metadata)[1]>>, "keywords"))
            /\ recommendations' = Append(recommendations,
                   Recommendation(RecTooShort, << >>, << >>))
       ELSE UNCHANGED <<issues, recommendations>>
  /\ Goto("compliance")
  /\ UNCHANGED <<metadata, score, foundBanned, result, saved, outside>>

\* One error for each term found instead of one error naming them all.
\* field: 'keywords'  of the compliance error (the place of the first find
\* if the field followed the text the term was seen in).
complianceFieldOfFind ==
  IF Len(filterBanned([metadata EXCEPT !.title = << >>, !.description = << >>])) > 0
    THEN "keywords"
    ELSE IF Len(filterBanned([metadata EXCEPT !.description = << >>])) > 0
      THEN "title" ELSE "description"
complianceField == "keywords"

CompliancePerTerm ==
  /\ pc = "compliance"
  /\ foundBanned' = filterBanned(metadata)
  /\ issues' = issues \o [i \in 1..Len(foundBanned') |->
                   Issue("error", MsgBanned, << >>, <<foundBanned'[i]>>, "keywords")]
  /\ score' = score - bannedPenalty(foundBanned')
  /\ recommendations' = recommendations \o [i \in 1..Len(foundBanned') |->
                   Recommendation(RecBanned, << >>, <<foundBanned'[i]>>)]
  /\ Goto("isAI")
  /\ UNCHANGED <<metadata, result, saved, outside>>

\* foundBanned.join(', ') is kept as the sequence of the joined terms.
Compliance ==
  /\ pc = "compliance"
  /\ foundBanned' = filterBanned(metadata)
  /\ IF Len(foundBanned') > 0
       THEN /\ issues' = Append(issues, Issue("error",
                   MsgBanned,
                   << >>, foundBanned', complianceField))
            /\ score' = score - bannedPenalty(foundBanned')
            /\ recommendations' = Append(recommendations,
                   Recommendation(RecBanned, << >>, foundBanned'))
       ELSE UNCHANGED <<issues, score, recommendations>>
  /\ Goto("isAI")
  /\ UNCHANGED <<metadata, result, saved, outside>>

IsAI ==
  /\ pc = "isAI"
  /\ IF ~metadata.isAI
       THEN /\ issues' = Append(issues, Issue("warning",
                   MsgIsAI,
                   << >>, << >>, "isAI"))
            /\ score' = score - isAIPenalty
       ELSE UNCHANGED <<issues, score>>
  /\ Goto("author")
  /\ UNCHANGED <<metadata, recommendations, foundBanned, result, saved, outside>>

authorPlaceholder == <<"{","{","a","u","t","h","o","r","}","}">>

Author ==
  /\ pc = "author"
  /\ IF ~includes(metadata.author, authorPlaceholder)
       THEN issues' = Append(issues, Issue("info",
                MsgAuthor, << >>, << >>, "author"))
       ELSE UNCHANGED issues
  /\ Goto("clamp")
  /\ UNCHANGED <<metadata, recommendations, score, foundBanned, result, saved, outside>>

Clamp ==
  /\ pc = "clamp"
  /\ score' = clampScore(score)
  /\ Goto("return")
  /\ UNCHANGED <<metadata, issues, recommendations, foundBanned, result, saved, outside>>

\* The result without its recommendations.
ReturnPartial ==
  /\ pc = "return"
  /\ result' = <<[score |-> score, issues |-> issues]>>
  /\ Goto("done")
  /\ UNCHANGED <<metadata, issues, recommendations, score, foundBanned, saved, outside>>

\* return { score, issues, recommendations };
Return ==
  /\ pc = "return"
  /\ result' = <<[score |-> score, issues |-> issues, recommendations |-> recommendations]>>
  /\ Goto("done")
  /\ UNCHANGED <<metadata, issues, recommendations, score, foundBanned, saved, outside>>

validateMetadataStep ==
  \/ Enter \/ TitleLength \/ TitleWords \/ Description \/ KeywordCount
  \/ Duplicates \/ TooShort \/ Compliance \/ IsAI \/ Author \/ Clamp \/ Return

-----------------------------------------------------------------------------
(* The ImageMetadata records the validator is run on.                      *)

Delta == 1     \* lengths and counts reach this far on both sides of a threshold
MaxPad == 1    \* white space put before and after a title or description

Near(n) == (n - Delta)..(n + Delta)

Rep(c, n) == [i \in 1..n |-> c]

RECURSIVE Concat(_)
Concat(ss) == IF ss = << >> THEN << >> ELSE Head(ss) \o Concat(Tail(ss))

\* `lead` blanks, then w words (w >= 1) of n characters in all, then `trail` blanks.
Text(lead, w, n, trail) ==
  Rep(" ", lead) \o Concat([i \in 1..(w - 1) |-> <<"e", " ">>])
                 \o Rep("x", n - 2 * (w - 1)) \o Rep(" ", trail)

AmazingIPhonePhoto == <<"A","m","a","z","i","n","g"," ","i","P","h","o","n","e"," ","p","h","o","t","o">>
CanonAndSony == <<"C","a","n","o","n"," ","a","n","d"," ","S","o","n","y"," ","c","a","m","e","r","a"," ","g","e","a","r">>
Affordable == <<"e"," ","e"," ","e"," ","e"," ","e"," ","e"," ","e"," ","e"," ","e"," ","a","f","f","o","r","d","a","b","l","e">>

SweepTitles ==
  {Text(lead, w, n, trail) :
     lead \in 0..MaxPad, trail \in 0..MaxPad, w \in {4, 5}, n \in Near(20) \cup Near(70)}
  \cup {<< >>}

CoreTitles == {Text(0, 5, 20, 0), Text(0, 5, 70 + Delta, 0), AmazingIPhonePhoto, CanonAndSony}

SweepDescriptions ==
  {Text(lead, w, 2 * w, trail) : lead \in 0..MaxPad, trail \in 0..MaxPad, w \in Near(10)}
  \cup {<< >>}

CoreDescriptions == {Text(0, 10, 20, 0), Text(0, 9, 18, 0), Affordable}

\* 64 distinct three-letter keywords.
Letters == <<"q", "x", "v", "e">>
Kw(i) == <<Letters[((i \div 16) % 4) + 1], Letters[((i \div 4) % 4) + 1], Letters[(i % 4) + 1]>>

KeywordPrefixes ==
  { << >>,
    << <<"c","a","t">>, <<"C","a","t"," ">>, <<"d","o","g">> >>,
    << <<"c","a","t">>, <<"C","a","t"," ">>, <<"C","A","T">> >>,
    << <<"q","x">>, <<"x","v">>, <<"v">>, <<"e","q">> >>,
    << <<"q","x">>, <<"x","v">>, <<"v">> >>,
    << <<"q","x"," ">>, <<"x","v">>, <<"v">>, <<"e","q">> >>,
    << <<"a","f","f","o","r","d">> >>,
    << <<"i","P","h","o","n","e"," ","c","a","s","e">>, <<"n","i","k","o","n">>,
       <<"N","i","k","o","n"," ","l","e","n","s">> >> }

KeywordCounts == {0, 3, 25} \cup Near(30) \cup Near(50)

Keywords(prefix, k) == prefix \o [i \in 1..(k - Len(prefix)) |-> Kw(i)]

SweepKeywords ==
  {Keywords(prefix, k) : prefix \in KeywordPrefixes, k \in KeywordCounts \ {0}}
  \cup {<< >>}

CoreKeywords == {Keywords(<< >>, 30), Keywords(<< >>, 25)}

Authors == {authorPlaceholder, <<"S","t","u","d","i","o">>,
            <<"p","h","o","t","o"," ","b","y"," ","{","{","a","u","t","h","o","r","}","}">>}

\* The empty strings and lists, and a title and keywords that break every rule.
EdgeTitles == {<< >>, <<"i","P","a","d"," ","i","O","S">>}
EdgeKeywords ==
  { << >>, << << >> >>,
    << <<"q","x">>, <<"x","v">>, <<"v">>, <<"e","q">>, <<"E","Q"," ">> >> }

ImageMetadata(t, d, k, ai, a) ==
  [title |-> t, description |-> d, keywords |-> k, category |-> "Nature",
   contentType |-> "Photography", isAI |-> ai, author |-> a]

CoreInputs ==
  {ImageMetadata(t, d, k, ai, a) :
     t \in CoreTitles, d \in CoreDescriptions, k \in CoreKeywords,
     ai \in BOOLEAN, a \in Authors}

EdgeInputs ==
  {ImageMetadata(t, d, k, ai, a) :
     t \in EdgeTitles, d \in {<< >>}, k \in EdgeKeywords,
     ai \in BOOLEAN, a \in {<< >>, <<"S","t","u","d","i","o">>}}

\* Every title, every description and every keyword list is tried, each
\* against a few values of the other fields.
Inputs ==
  {ImageMetadata(t, d, k, ai, a) :
     t \in SweepTitles, d \in {Text(0, 10, 20, 0)}, k \in CoreKeywords,
     ai \in BOOLEAN, a \in {authorPlaceholder}}
  \cup
  {ImageMetadata(t, d, k, ai, a) :
     t \in {Text(0, 5, 20, 0), AmazingIPhonePhoto}, d \in SweepDescriptions,
     k \in CoreKeywords, ai \in {TRUE}, a \in Authors}
  \cup
  {ImageMetadata(t, d, k, ai, a) :
     t \in CoreTitles, d \in {Text(0, 10, 20, 0), Affordable}, k \in SweepKeywords,
     ai \in BOOLEAN, a \in {authorPlaceholder, <<"S","t","u","d","i","o">>}}
  \cup CoreInputs
  \cup EdgeInputs

-----------------------------------------------------------------------------
(* One call of validateMetadata on any of the inputs.                      *)

null == "null"

\* The App as its useState initialisers leave it.
Unmounted ==
  /\ hasApiKey = FALSE
  /\ isGenerating = FALSE
  /\ isGeneratingMetadata = FALSE
  /\ isAnalyzingQuality = FALSE
  /\ error = null
  /\ currentImage = << >>
  /\ history = << >>
  /\ activeTab = "metadata"
  /\ pending = EmptyBag
  /\ uuids = 0
  /\ lastSettled = << >>

Before(m) ==
  /\ metadata = m
  /\ pc = "enter"
  /\ issues = << >>
  /\ recommendations = << >>
  /\ score = 0
  /\ foundBanned = << >>
  /\ result = << >>
  /\ saved = << >>
  /\ other = << >>
  /\ parsed = << >>
  /\ Unmounted

Init == \E m \in Inputs : Before(m)

Next == validateMetadataStep

Spec == Init /\ [][Next]_vars

\* A call that is run to its end (JavaScript runs a started function to
\* completion), on the plain inputs and the empty ones.
InitLive == \E m \in CoreInputs \cup EdgeInputs : Before(m)

SpecLive == InitLive /\ [][Next]_vars /\ WF_vars(Next)

-----------------------------------------------------------------------------
(* Repeated calls: the metadata panel calls validateMetadata again whenever *)
(* its metadata changes.  `saved` remembers one earlier call.               *)

SeqInputs ==
  {ImageMetadata(t, d, k, ai, a) :
     t \in {Text(0, 5, 20, 0), AmazingIPhonePhoto}, d \in {Text(0, 10, 20, 0)},
     k \in {Keywords(<< >>, 30), Keywords(<< <<"c","a","t">>, <<"C","a","t"," ">> >>, 29)},
     ai \in BOOLEAN, a \in {authorPlaceholder, <<"S","t","u","d","i","o">>}}

CallAgain(m) ==
  /\ pc = "done"
  /\ metadata' = m
  /\ result' = << >>
  /\ Goto("enter")
  /\ UNCHANGED <<issues, recommendations, score, foundBanned, saved, outside>>

SaveAndCall(m) ==
  /\ pc = "done"
  /\ saved' = <<[metadata |-> metadata, result |-> result[1]]>>
  /\ metadata' = m
  /\ result' = << >>
  /\ Goto("enter")
  /\ UNCHANGED <<issues, recommendations, score, foundBanned, outside>>

InitSeq == \E m \in SeqInputs : Before(m)

NextSeq ==
  \/ validateMetadataStep
  \/ \E m \in SeqInputs : CallAgain(m)
  \/ \E m \in SeqInputs : SaveAndCall(m)

SpecSeq == InitSeq /\ [][NextSeq]_vars

-----------------------------------------------------------------------------
(* generateMetadata, from the parsed JSON payload on: the sanitising of    *)
(* the payload, whose result the validator is then run on.  A payload is   *)
(* [title, description, keywords, keywordAnalysis, author, isAI] beside    *)
(* params.author; an absent or empty string is << >>, keywords is tagged   *)
(* with what it is (array, string or undefined), keywordAnalysis is << >>  *)
(* or <<[broad, medium, niche]>>, and isAI is one of the JSON values       *)
(* below.                                                                  *)

jsonTrue == "true"
jsonStringTrue == "\"true\""
jsonFalse == "false"
jsonUndefined == "undefined"

\* Array.from(new Set(a)): the first occurrence of every value, in order
\* (only the repetitions that follow each other removed, if it were not).
dedupeAdjacent(a) ==
  LET keep == {i \in 1..Len(a) : i = 1 \/ a[i - 1] # a[i]}
      nth(n) == CHOOSE i \in keep : Cardinality({j \in keep : j < i}) = n - 1
  IN [n \in 1..Cardinality(keep) |-> a[nth(n)]]
dedupe(a) ==
  LET keep == {i \in 1..Len(a) : \A j \in 1..(i - 1) : a[j] # a[i]}
      nth(n) == CHOOSE i \in keep : Cardinality({j \in keep : j < i}) = n - 1
  IN [n \in 1..Cardinality(keep) |-> a[nth(n)]]

\* a.slice(0, n)
slice(a, n) == SubSeq(a, 1, MathMin(n, Len(a)))

\* s.split(","): the pieces between the commas, empty ones included.
splitComma(s) ==
  LET commas == {i \in 1..Len(s) : s[i] = ","}
      comma(n) == IF n = 0 THEN 0
                  ELSE IF n > Cardinality(commas) THEN Len(s) + 1
                  ELSE CHOOSE i \in commas : Cardinality({j \in commas : j < i}) = n - 1
  IN [n \in 1..(Cardinality(commas) + 1) |-> SubSeq(s, comma(n - 1) + 1, comma(n) - 1)]

\* if (!Array.isArray(parsed.keywords)) parsed.keywords = ...
keywordsArray(p) ==
  IF p.keywords.kind = "array" THEN p.keywords.array
  ELSE IF p.keywordAnalysis # << >>
    THEN p.keywordAnalysis[1].broad \o p.keywordAnalysis[1].medium
           \o p.keywordAnalysis[1].niche
  ELSE IF p.keywords.kind = "string"
    THEN [i \in 1..Len(splitComma(p.keywords.string)) |->
            trim(splitComma(p.keywords.string)[i])]
  ELSE << >>

\* The record generateMetadata returns for the payload p.
sanitize(p) ==
  [title |-> slice(p.title, 140),
   description |-> p.description,
   keywords |-> slice(dedupe(keywordsArray(p)), 50),
   category |-> "Nature",
   contentType |-> "Photography",
   isAI |-> (p.isAI = jsonTrue \/ p.isAI = jsonStringTrue),
   author |-> IF p.author # << >> THEN p.author
              ELSE IF p.paramsAuthor # << >> THEN p.paramsAuthor
              ELSE authorPlaceholder]

generateMetadataReturn ==
  /\ pc = "sanitize"
  /\ metadata' = sanitize(parsed[1])
  /\ Goto("enter")
  /\ UNCHANGED <<issues, recommendations, score, foundBanned, result, saved, outside>>

Cat == <<"c","a","t">>
Dog == <<"d","o","g">>
CatDogCat == <<"c","a","t",","," ","d","o","g",",","c","a","t">>

Array(a) == [kind |-> "array", array |-> a, string |-> << >>]
String(s) == [kind |-> "string", array |-> << >>, string |-> s]
Undefined == [kind |-> "undefined", array |-> << >>, string |-> << >>]

KeywordAnalysis == [broad |-> <<Cat>>, medium |-> <<Dog, Cat>>, niche |-> << >>]

PayloadKeywords ==
  { <<Array(<<Cat, <<"C","a","t"," ">>, Cat>> \o Keywords(<< >>, 51)), << >> >>,
    <<Array(Keywords(<< >>, 30)), << >> >>,
    <<Array(<< >>), <<KeywordAnalysis>> >>,
    <<String(CatDogCat), << >> >>,
    <<String(CatDogCat), <<KeywordAnalysis>> >>,
    <<Undefined, <<KeywordAnalysis>> >>,
    <<Undefined, << >> >> }

Payloads ==
  {[title |-> t, description |-> Text(0, 10, 20, 0), keywords |-> k[1],
    keywordAnalysis |-> k[2], author |-> a, isAI |-> ai, paramsAuthor |-> pa] :
     t \in {Text(0, 5, 20, 0), Rep("x", 141)}, k \in PayloadKeywords,
     a \in {<< >>, <<"S","t","u","d","i","o">>},
     ai \in {jsonTrue, jsonStringTrue, jsonFalse, jsonUndefined},
     pa \in {<< >>, authorPlaceholder}}

InitGen ==
  \E p \in Payloads :
    /\ parsed = <<p>>
    /\ metadata = ImageMetadata(<< >>, << >>, << >>, FALSE, << >>)
    /\ pc = "sanitize"
    /\ issues = << >>
    /\ recommendations = << >>
    /\ score = 0
    /\ foundBanned = << >>
    /\ result = << >>
    /\ saved = << >>
    /\ other = << >>
    /\ Unmounted

NextGen == generateMetadataReturn \/ validateMetadataStep

SpecGen == InitGen /\ [][NextGen]_vars

-----------------------------------------------------------------------------
(* Two callers whose steps interleave.  The variables of the call hold the *)
(* locals of the caller that is running; `other` holds the locals of the   *)
(* caller that is not, and Switch hands the processor over.  The denylist  *)
(* is the one thing both read.                                             *)

Frame ==
  [metadata |-> metadata, pc |-> pc, issues |-> issues,
   recommendations |-> recommendations, score |-> score,
   foundBanned |-> foundBanned, result |-> result]

\* The issues array the caller that resumes goes on with: the one it made
\* itself at  const issues = []  (one array for all the callers if the
\* declaration stood outside the function).
sharedIssues(frame) == issues
ownIssues(frame) == frame.issues

Switch ==
  /\ other # << >>
  /\ other' = <<Frame>>
  /\ metadata' = other[1].metadata
  /\ pc' = other[1].pc
  /\ issues' = ownIssues(other[1])
  /\ recommendations' = other[1].recommendations
  /\ score' = other[1].score
  /\ foundBanned' = other[1].foundBanned
  /\ result' = other[1].result
  /\ UNCHANGED <<saved, parsed, appVars>>

ConcInputs ==
  {ImageMetadata(t, d, k, ai, a) :
     t \in {Text(0, 5, 20, 0), AmazingIPhonePhoto}, d \in {Text(0, 10, 20, 0)},
     k \in {Keywords(<< >>, 30), Keywords(<< <<"c","a","t">>, <<"C","a","t"," ">> >>, 29)},
     ai \in {FALSE}, a \in {authorPlaceholder}}

InitConc ==
  \E m \in ConcInputs, n \in ConcInputs :
    /\ metadata = m
    /\ pc = "enter"
    /\ issues = << >>
    /\ recommendations = << >>
    /\ score = 0
    /\ foundBanned = << >>
    /\ result = << >>
    /\ saved = << >>
    /\ parsed = << >>
    /\ Unmounted
    /\ other = <<[metadata |-> n, pc |-> "enter", issues |-> << >>,
                  recommendations |-> << >>, score |-> 0,
                  foundBanned |-> << >>, result |-> << >>]>>

NextConc == validateMetadataStep \/ Switch

SpecConc == InitConc /\ [][NextConc]_vars

-----------------------------------------------------------------------------
(* App: the image history, the current image, the busy flags and the error *)
(* banner.  A call of an external service that has not settled yet is an   *)
(* element of `pending`: [fn, id, optimize], with fn the service awaited,  *)
(* id the image the answer is for (0 while there is none) and optimize the *)
(* params.optimizeForMicrostock the handler was started with.  A handler   *)
(* runs from one await to the next without interruption, and starts from   *)
(* the state of the last render.                                           *)

MaxImages == 2     \* images generated in one behaviour
MaxPending == 2    \* external calls in flight at one time

undefined == "undefined"

\* What generateMetadata and assessImageQuality may answer.
Metadatas == {"metadata"}
Assessments == {"assessment"}

GeneratedImage(id) == [id |-> id, metadata |-> undefined, qualityAssessment |-> undefined]

Call(fn, id, optimize) == [fn |-> fn, id |-> id, optimize |-> optimize]

Calls ==
  {Call(fn, 0, o) : fn \in {"promptForApiKey", "generateImage"}, o \in BOOLEAN}
  \cup {Call(fn, id, FALSE) :
          fn \in {"autoMetadata", "generateMetadata", "assessImageQuality"},
          id \in 1..MaxImages}

awaiting(c) == pending (+) SetToBag({c})
settling(c) == pending (-) SetToBag({c})

ids(images) == {images[i].id : i \in 1..Len(images)}

\* The handleGenerate calls that have not produced their image yet.
generating ==
  LET waiting == {c \in BagToSet(pending) : c.fn \in {"promptForApiKey", "generateImage"}}
  IN BagCardinality([c \in waiting |-> pending[c]])

\* updateImageMetadata(id, metadata): the two state updaters.
historyWithMetadata(prev, id, m) ==
  [i \in 1..Len(prev) |-> IF prev[i].id = id THEN [prev[i] EXCEPT !.metadata = m] ELSE prev[i]]
currentWithMetadataStale(prev, id, m) == prev
currentWithMetadata(prev, id, m) ==
  IF prev # << >> /\ prev[1].id = id THEN <<[prev[1] EXCEPT !.metadata = m]>> ELSE prev

\* updateImageAssessment(id, qualityAssessment): the two state updaters.
historyWithAssessment(prev, id, q) ==
  [i \in 1..Len(prev) |->
     IF prev[i].id = id THEN [prev[i] EXCEPT !.qualityAssessment = q] ELSE prev[i]]
currentWithAssessmentAny(prev, id, q) ==
  IF prev # << >> THEN <<[prev[1] EXCEPT !.qualityAssessment = q]>> ELSE prev
currentWithAssessment(prev, id, q) ==
  IF prev # << >> /\ prev[1].id = id THEN <<[prev[1] EXCEPT !.qualityAssessment = q]>> ELSE prev

\* verifyKey, at the point where checkApiKey has answered.
verifyKey(valid) ==
  /\ hasApiKey' = valid
  /\ lastSettled' = << >>
  /\ UNCHANGED <<isGenerating, isGeneratingMetadata, isAnalyzingQuality, error,
                 currentImage, history, activeTab, pending, uuids, validatorVars>>

\* handleGenerate up to its first await.
handleGenerate(optimize) ==
  /\ BagCardinality(pending) < MaxPending
  /\ uuids + generating < MaxImages
  /\ IF ~hasApiKey
       THEN /\ pending' = awaiting(Call("promptForApiKey", 0, optimize))
            /\ UNCHANGED <<error, isGenerating>>
       ELSE /\ error' = null
            /\ isGenerating' = TRUE
            /\ pending' = awaiting(Call("generateImage", 0, optimize))
  /\ lastSettled' = << >>
  /\ UNCHANGED <<hasApiKey, isGeneratingMetadata, isAnalyzingQuality,
                 currentImage, history, activeTab, uuids, validatorVars>>

\* promptForApiKey and checkApiKey have answered: on to generateImage.
keyPrompted(c, stillValid) ==
  /\ c.fn = "promptForApiKey" /\ BagIn(c, pending)
  /\ hasApiKey' = IF ~stillValid THEN TRUE ELSE hasApiKey
  /\ error' = null
  /\ isGenerating' = TRUE
  /\ pending' = settling(c) (+) SetToBag({Call("generateImage", 0, c.optimize)})
  /\ lastSettled' = << >>
  /\ UNCHANGED <<isGeneratingMetadata, isAnalyzingQuality,
                 currentImage, history, activeTab, uuids, validatorVars>>

\* promptForApiKey or checkApiKey has rejected: handleGenerate ends there.
keyPromptFailed(c) ==
  /\ c.fn = "promptForApiKey" /\ BagIn(c, pending)
  /\ pending' = settling(c)
  /\ lastSettled' = <<[call |-> c, outcome |-> "rejected"]>>
  /\ UNCHANGED <<hasApiKey, isGenerating, isGeneratingMetadata, isAnalyzingQuality, error,
                 currentImage, history, activeTab, uuids, validatorVars>>

\* generateImage has resolved: the rest of the try block and the finally.
imageGenerated(c) ==
  /\ c.fn = "generateImage" /\ BagIn(c, pending)
  /\ LET newId == uuids + 1
         newImage == GeneratedImage(newId)
     IN /\ uuids' = newId
        /\ currentImage' = <<newImage>>
        /\ history' = <<newImage>> \o history
        /\ pending' = IF c.optimize
                        THEN settling(c) (+) SetToBag({Call("autoMetadata", newId, FALSE)})
                        ELSE settling(c)
  /\ activeTab' = "metadata"
  /\ isGenerating' = FALSE
  /\ lastSettled' = <<[call |-> c, outcome |-> "resolved"]>>
  /\ UNCHANGED <<hasApiKey, isGeneratingMetadata, isAnalyzingQuality, error, validatorVars>>

\* generateImage has rejected: the catch block and the finally.
imageFailed(c, keyError) ==
  /\ c.fn = "generateImage" /\ BagIn(c, pending)
  /\ error' = "Failed to generate image"
  /\ hasApiKey' = IF keyError THEN FALSE ELSE hasApiKey
  /\ isGenerating' = FALSE
  /\ pending' = settling(c)
  /\ lastSettled' = <<[call |-> c, outcome |-> "rejected"]>>
  /\ UNCHANGED <<isGeneratingMetadata, isAnalyzingQuality,
                 currentImage, history, activeTab, uuids, validatorVars>>

\* generateMetadata(...).then(meta => updateImageMetadata(newId, meta))
autoMetadataGenerated(c, m) ==
  /\ c.fn = "autoMetadata" /\ BagIn(c, pending)
  /\ history' = historyWithMetadata(history, c.id, m)
  /\ currentImage' = currentWithMetadata(currentImage, c.id, m)
  /\ pending' = settling(c)
  /\ lastSettled' = <<[call |-> c, outcome |-> "resolved"]>>
  /\ UNCHANGED <<hasApiKey, isGenerating, isGeneratingMetadata, isAnalyzingQuality, error,
                 activeTab, uuids, validatorVars>>

\* .catch(err => console.warn(...))
autoMetadataFailed(c) ==
  /\ c.fn = "autoMetadata" /\ BagIn(c, pending)
  /\ pending' = settling(c)
  /\ lastSettled' = <<[call |-> c, outcome |-> "rejected"]>>
  /\ UNCHANGED <<hasApiKey, isGenerating, isGeneratingMetadata, isAnalyzingQuality, error,
                 currentImage, history, activeTab, uuids, validatorVars>>

\* handleGenerateMetadata up to its await.  MetadataPanel is shown on the
\* metadata tab and offers the button if (!metadata && !isLoading).
handleGenerateMetadata ==
  /\ currentImage # << >>
  /\ activeTab = "metadata"
  /\ currentImage[1].metadata = undefined
  /\ ~isGeneratingMetadata
  /\ BagCardinality(pending) < MaxPending
  /\ isGeneratingMetadata' = TRUE
  /\ pending' = awaiting(Call("generateMetadata", currentImage[1].id, FALSE))
  /\ lastSettled' = << >>
  /\ UNCHANGED <<hasApiKey, isGenerating, isAnalyzingQuality, error,
                 currentImage, history, activeTab, uuids, validatorVars>>

metadataGenerated(c, m) ==
  /\ c.fn = "generateMetadata" /\ BagIn(c, pending)
  /\ history' = historyWithMetadata(history, c.id, m)
  /\ currentImage' = currentWithMetadata(currentImage, c.id, m)
  /\ isGeneratingMetadata' = FALSE
  /\ pending' = settling(c)
  /\ lastSettled' = <<[call |-> c, outcome |-> "resolved"]>>
  /\ UNCHANGED <<hasApiKey, isGenerating, isAnalyzingQuality, error,
                 activeTab, uuids, validatorVars>>

\* The catch block without the finally after it.
metadataFailedNoFinally(c) ==
  /\ c.fn = "generateMetadata" /\ BagIn(c, pending)
  /\ error' = "Failed to generate metadata"
  /\ pending' = settling(c)
  /\ lastSettled' = <<[call |-> c, outcome |-> "rejected"]>>
  /\ UNCHANGED <<hasApiKey, isGenerating, isGeneratingMetadata, isAnalyzingQuality,
                 currentImage, history, activeTab, uuids, validatorVars>>

metadataFailed(c) ==
  /\ c.fn = "generateMetadata" /\ BagIn(c, pending)
  /\ error' = "Failed to generate metadata"
  /\ isGeneratingMetadata' = FALSE
  /\ pending' = settling(c)
  /\ lastSettled' = <<[call |-> c, outcome |-> "rejected"]>>
  /\ UNCHANGED <<hasApiKey, isGenerating, isAnalyzingQuality,
                 currentImage, history, activeTab, uuids, validatorVars>>

\* handleAnalyzeQuality up to its await.  QualityInspector is shown on the
\* quality tab and offers the button if (!assessment && !isLoading).
handleAnalyzeQuality ==
  /\ currentImage # << >>
  /\ activeTab = "quality"
  /\ currentImage[1].qualityAssessment = undefined
  /\ ~isAnalyzingQuality
  /\ BagCardinality(pending) < MaxPending
  /\ isAnalyzingQuality' = TRUE
  /\ pending' = awaiting(Call("assessImageQuality", currentImage[1].id, FALSE))
  /\ lastSettled' = << >>
  /\ UNCHANGED <<hasApiKey, isGenerating, isGeneratingMetadata, error,
                 currentImage, history, activeTab, uuids, validatorVars>>

qualityAssessed(c, q) ==
  /\ c.fn = "assessImageQuality" /\ BagIn(c, pending)
  /\ history' = historyWithAssessment(history, c.id, q)
  /\ currentImage' = currentWithAssessment(currentImage, c.id, q)
  /\ isAnalyzingQuality' = FALSE
  /\ pending' = settling(c)
  /\ lastSettled' = <<[call |-> c, outcome |-> "resolved"]>>
  /\ UNCHANGED <<hasApiKey, isGenerating, isGeneratingMetadata, error,
                 activeTab, uuids, validatorVars>>

qualityFailed(c) ==
  /\ c.fn = "assessImageQuality" /\ BagIn(c, pending)
  /\ error' = "Failed to analyze quality"
  /\ isAnalyzingQuality' = FALSE
  /\ pending' = settling(c)
  /\ lastSettled' = <<[call |-> c, outcome |-> "rejected"]>>
  /\ UNCHANGED <<hasApiKey, isGenerating, isGeneratingMetadata,
                 currentImage, history, activeTab, uuids, validatorVars>>

\* Gallery: onSelect(img) with img an element of the history it was given.
setCurrentImage(i) ==
  /\ i \in 1..Len(history)
  /\ currentImage' = <<history[i]>>
  /\ lastSettled' = << >>
  /\ UNCHANGED <<hasApiKey, isGenerating, isGeneratingMetadata, isAnalyzingQuality, error,
                 history, activeTab, pending, uuids, validatorVars>>

handleDelete(id) ==
  /\ id \in ids(history)
  /\ history' = SelectSeq(history, LAMBDA img : img.id # id)
  /\ currentImage' = IF currentImage # << >> /\ currentImage[1].id = id
                       THEN << >> ELSE currentImage
  /\ lastSettled' = << >>
  /\ UNCHANGED <<hasApiKey, isGenerating, isGeneratingMetadata, isAnalyzingQuality, error,
                 activeTab, pending, uuids, validatorVars>>

\* The tab switcher, shown while there is a current image.
setActiveTab(tab) ==
  /\ currentImage # << >>
  /\ activeTab' = tab
  /\ lastSettled' = << >>
  /\ UNCHANGED <<hasApiKey, isGenerating, isGeneratingMetadata, isAnalyzingQuality, error,
                 currentImage, history, pending, uuids, validatorVars>>

\* The external call c answers or fails.
Settle(c) ==
  \/ \E stillValid \in BOOLEAN : keyPrompted(c, stillValid)
  \/ keyPromptFailed(c)
  \/ imageGenerated(c)
  \/ \E keyError \in BOOLEAN : imageFailed(c, keyError)
  \/ \E m \in Metadatas : autoMetadataGenerated(c, m)
  \/ autoMetadataFailed(c)
  \/ \E m \in Metadatas : metadataGenerated(c, m)
  \/ metadataFailed(c)
  \/ \E q \in Assessments : qualityAssessed(c, q)
  \/ qualityFailed(c)

InitApp == Before(ImageMetadata(<< >>, << >>, << >>, FALSE, << >>))

NextApp ==
  \/ \E valid \in BOOLEAN : verifyKey(valid)
  \/ \E optimize \in BOOLEAN : handleGenerate(optimize)
  \/ handleGenerateMetadata
  \/ handleAnalyzeQuality
  \/ \E i \in 1..MaxImages : setCurrentImage(i)
  \/ \E id \in 1..MaxImages : handleDelete(id)
  \/ \E tab \in {"metadata", "quality"} : setActiveTab(tab)
  \/ \E c \in Calls : Settle(c)

SpecApp == InitApp /\ [][NextApp]_vars

\* Every external call answers or fails in the end.
SpecAppLive == InitApp /\ [][NextApp]_vars /\ \A c \in Calls : WF_vars(Settle(c))

-----------------------------------------------------------------------------
(* The quantities the rules are stated in.                                 *)

Range(f) == {f[i] : i \in DOMAIN f}

Returned == pc = "done"

HasIssue(text) == \E i \in 1..Len(issues) : issues[i].message.text = text

IssuesWith(text) == {i \in 1..Len(issues) : issues[i].message.text = text}

HasRecommendation(text) == \E i \in 1..Len(recommendations) : recommendations[i].text = text

\* t occurs in s: dropping some a characters of s leaves a string that starts with t.
Occurs(t, s) ==
  \/ t = << >>
  \/ \E a \in 0..(Len(s) - Len(t)) : s[a + 1] = t[1] /\ SubSeq(s, a + 1, a + Len(t)) = t

\* K, the number of keywords.
K == Len(metadata.keywords)

\* D, the keywords in excess of the distinct lower-cased, trimmed ones.
D == Len(metadata.keywords)
       - Cardinality({trim(toLowerCase(k)) : k \in Range(metadata.keywords)})

\* F, the denylist terms found in the lower-cased title, description or keywords.
F ==
  LET title == toLowerCase(metadata.title)
      description == toLowerCase(metadata.description)
      keywords == {toLowerCase(k) : k \in Range(metadata.keywords)}
  IN {t \in Range(BANNED_KEYWORDS) :
        \/ Occurs(t, title)
        \/ Occurs(t, description)
        \/ \E k \in keywords : Occurs(t, k)}

\* P, the sum of the penalties of the rules that fired, in half points.
P ==
    (IF HasIssue(MsgTitleTooLong) THEN 30 ELSE 0)
  + (IF HasIssue(MsgTitleTooShort) THEN 10 ELSE 0)
  + (IF HasIssue(MsgTitleWords) THEN 10 ELSE 0)
  + (IF HasIssue(MsgDescription) THEN 20 ELSE 0)
  + (IF HasIssue(MsgKeywordsMissing) THEN (30 - K) * 3 ELSE 0)
  + (IF HasIssue(MsgKeywordsExtra) THEN (K - 50) * 4 ELSE 0)
  + (IF HasIssue(MsgDuplicates) THEN D * 6 ELSE 0)
  + (IF HasIssue(MsgBanned) THEN 50 * Cardinality(F) ELSE 0)
  + (IF HasIssue(MsgIsAI) THEN 20 ELSE 0)

\* The whole number nearest to h half points, a half going up.
Nearest(h) == CHOOSE n \in 0..100 : 2 * n - h \in {0, 1}

ClampHalf(h) == IF h < 0 THEN 0 ELSE IF h > 200 THEN 200 ELSE h

-----------------------------------------------------------------------------
\* C1: the score validateMetadata returns is an integer between 0 and 100,
\* however large the accumulated penalty is.
C1_ScoreInRange == Returned => result[1].score \in 0..100

\* A call has returned whose penalties add up to more than 100 points.
C1_Witness == Returned /\ P > 200 /\ result[1].score = 0

\* C3: the returned score is round(clamp(100 - P, 0, 100)), P being the sum of
\* the penalties of all the rules that fired; the total is rounded once.
C3_ScoreIsRoundedSum == Returned => result[1].score = Nearest(ClampHalf(200 - P))

\* Title too long, five keywords missing and no AI flag: 100 - 15 - 7.5 - 10.
C3_Witness ==
  /\ Returned
  /\ HasIssue(MsgTitleTooLong) /\ HasIssue(MsgKeywordsMissing) /\ HasIssue(MsgIsAI)
  /\ P = 65
  /\ result[1].score = 68

\* C4: a call on the same metadata as an earlier call returns the same score,
\* the same issues and the same recommendations, whatever was called between.
C4_Deterministic ==
  (Returned /\ saved # << >> /\ saved[1].metadata = metadata)
    => /\ result[1].score = saved[1].result.score
       /\ result[1].issues = saved[1].result.issues
       /\ result[1].recommendations = saved[1].result.recommendations

\* A later call on the metadata of the saved call has returned with issues.
C4_Witness ==
  /\ Returned /\ saved # << >> /\ saved[1].metadata = metadata
  /\ Len(result[1].issues) > 1

\* The words of s: its maximal runs of characters that are not white space.
Words(s) ==
  Cardinality({i \in 1..Len(s) : s[i] \notin WhiteSpace /\ (i = 1 \/ s[i - 1] \in WhiteSpace)})

\* The keywords of fewer than three characters.
ShortKeywords == {i \in 1..Len(metadata.keywords) : Len(metadata.keywords[i]) < 3}

\* The preconditions of the clean case.
Clean ==
  /\ Len(metadata.title) \in 20..70
  /\ Words(metadata.title) >= 5
  /\ Words(metadata.description) >= 10
  /\ K \in 30..50
  /\ D = 0
  /\ F = {}
  /\ metadata.isAI
  /\ Occurs(authorPlaceholder, metadata.author)

\* C2 as stated: clean metadata gets score 100 and an empty issues list.
C2_Original == (Returned /\ Clean) => (result[1].score = 100 /\ result[1].issues = << >>)

\* C2: clean metadata with at most three keywords of fewer than three
\* characters gets score 100 and an empty issues list.
C2_CleanScores100 ==
  (Returned /\ Clean /\ Cardinality(ShortKeywords) <= 3)
    => (result[1].score = 100 /\ result[1].issues = << >>)

\* A call on clean metadata with exactly three short keywords has returned.
C2_Witness == Returned /\ Clean /\ Cardinality(ShortKeywords) = 3 /\ K = 30

\* The compliance block has just run.
AfterCompliance == pc = "isAI"

ComplianceStep ==
  pc = "compliance" =>
    LET found == F
        n == Len(issues')
        r == Len(recommendations')
    IN IF found # {}
         THEN /\ n = Len(issues) + 1
              /\ SubSeq(issues', 1, Len(issues)) = issues
              /\ issues'[n].type = "error"
              /\ issues'[n].message.text = MsgBanned
              /\ Range(issues'[n].message.strs) = found
              /\ Len(issues'[n].message.strs) = Cardinality(found)
              /\ score' = score - 50 * Cardinality(found)
              /\ r = Len(recommendations) + 1
              /\ SubSeq(recommendations', 1, Len(recommendations)) = recommendations
              /\ recommendations'[r].text = RecBanned
              /\ Range(recommendations'[r].strs) = found
         ELSE /\ issues' = issues
              /\ score' = score
              /\ recommendations' = recommendations

\* C5: when the set F of denylist terms found is not empty, exactly one
\* compliance error lists every term of F once, 25 points are subtracted per
\* term of F and one recommendation names the terms; when F is empty there is
\* no compliance issue, no penalty and no recommendation.
C5_BrandCompliance ==
  /\ [](Returned => Cardinality(IssuesWith(MsgBanned)) = (IF F # {} THEN 1 ELSE 0))
  /\ [][ComplianceStep]_vars

\* "iphone" is found in the title and in a keyword, "nikon" in two keywords.
C5_Witness ==
  /\ Returned
  /\ metadata.title = AmazingIPhonePhoto
  /\ <<"N","i","k","o","n"," ","l","e","n","s">> \in Range(metadata.keywords)
  /\ Cardinality(F) = 2
  /\ HasIssue(MsgBanned)

\* C6: a denylist term is found exactly when it occurs in the lower-cased
\* title, the lower-cased description or a lower-cased keyword, also when it
\* occurs inside a longer word.
C6_FoundIffSubstring ==
  AfterCompliance =>
    LET found == F
    IN \A t \in Range(BANNED_KEYWORDS) : t \in Range(foundBanned) <=> t \in found

\* "ford" is found in the keyword "afford" alone.
C6_Witness ==
  /\ AfterCompliance
  /\ <<"a","f","f","o","r","d">> \in Range(metadata.keywords)
  /\ metadata.description # Affordable
  /\ <<"f","o","r","d">> \in Range(foundBanned)

KeywordCountStep ==
  pc = "keywordCount" =>
    /\ K < 30 => /\ score' = score - (30 - K) * 3
                 /\ recommendations' = Append(recommendations,
                                              Recommendation(RecAddKeywords, <<30 - K>>, << >>))
    /\ K > 50 => /\ score' = score - (K - 50) * 4
                 /\ recommendations' = Append(recommendations,
                                              Recommendation(RecRemoveKeywords, <<K - 50>>, << >>))
    /\ K \in 30..50 => (score' = score /\ recommendations' = recommendations /\ issues' = issues)

\* The keyword-count errors of either kind.
KeywordCountIssues == IssuesWith(MsgKeywordsMissing) \cup IssuesWith(MsgKeywordsExtra)

DuplicatesStep ==
  pc = "duplicates" =>
    IF D > 0
      THEN /\ score' = score - D * 6
           /\ recommendations' = Append(recommendations, Recommendation(RecDuplicates, << >>, << >>))
      ELSE /\ score' = score
           /\ recommendations' = recommendations
           /\ issues' = issues

\* C9: with D the number of keywords minus the number of distinct lower-cased,
\* trimmed keywords, a warning citing D is emitted, D x 3 is subtracted and
\* deduplication is recommended exactly when D > 0.
C9_DuplicateKeywords ==
  /\ [](Returned =>
          /\ D > 0 <=> IssuesWith(MsgDuplicates) # {}
          /\ Cardinality(IssuesWith(MsgDuplicates)) <= 1
          /\ \A i \in IssuesWith(MsgDuplicates) :
               issues[i].type = "warning" /\ issues[i].message.nums = <<D>>
          /\ D > 0 <=> HasRecommendation(RecDuplicates))
  /\ [][DuplicatesStep]_vars

\* The keywords ["cat", "Cat ", "dog"] have given one duplicate.
C9_Witness ==
  /\ Returned
  /\ metadata.keywords = << <<"c","a","t">>, <<"C","a","t"," ">>, <<"d","o","g">> >>
  /\ D = 1
  /\ HasIssue(MsgDuplicates)

\* L, the length of the title without the white space around it.
L == Len(trim(metadata.title))

\* The title-length block subtracts 15 for a title that is too long; for any
\* other title it subtracts nothing or the 5 of a title that is too short.
TitleLengthStep ==
  pc = "title" => IF L > 70 THEN score' = score - 30 ELSE score' \in {score, score - 10}

\* C10: with L the length of the trimmed title, the title error is emitted and
\* 15 is subtracted exactly when L > 70.
C10_TitleTooLong ==
  /\ [](Returned =>
          /\ L > 70 <=> IssuesWith(MsgTitleTooLong) # {}
          /\ \A i \in IssuesWith(MsgTitleTooLong) : issues[i].type = "error")
  /\ [][TitleLengthStep]_vars

\* The title-length block subtracts 5 for a title that is too short; for any
\* other title it subtracts nothing or the 15 of a title that is too long.
TitleShortStep ==
  pc = "title" => IF L < 20 THEN score' = score - 10 ELSE score' \in {score, score - 30}

\* C11: with L the length of the trimmed title, the title warning is emitted
\* and 5 is subtracted exactly when L < 20, also when blanks around the title
\* bring its length to 20.
C11_TitleTooShort ==
  /\ [](Returned =>
          /\ L < 20 <=> IssuesWith(MsgTitleTooShort) # {}
          /\ \A i \in IssuesWith(MsgTitleTooShort) : issues[i].type = "warning")
  /\ [][TitleShortStep]_vars

TitleWordsStep ==
  pc = "titleWords" =>
    IF Words(metadata.title) < 5 THEN score' = score - 10
    ELSE score' = score /\ issues' = issues

\* C12: the low-word-count warning is emitted and 5 is subtracted exactly when
\* the title has fewer than 5 words, a word being a maximal run of characters
\* that are not white space.
C12_TitleWordCount ==
  /\ [](Returned =>
          /\ Words(metadata.title) < 5 <=> IssuesWith(MsgTitleWords) # {}
          /\ \A i \in IssuesWith(MsgTitleWords) : issues[i].type = "warning")
  /\ [][TitleWordsStep]_vars

\* What the title checks decide for the metadata m (the too-short check is
\* only tried when the title is not too long).
LongFires(m) == titleTooLong(m)
ShortFires(m) == ~titleTooLong(m) /\ titleTooShort(m)
WordsFires(m) == titleWordsLow(m)

\* C13 as stated: when a call begins, there is metadata it could be given on
\* which the three title checks all fire.
C13_Original ==
  pc = "enter" => \E m \in Inputs : LongFires(m) /\ ShortFires(m) /\ WordsFires(m)

\* C13: each title check is decided by its own condition; the word-count
\* check fires with or without either length check, but the too-long and the
\* too-short check never fire in the same call, so at most two title issues
\* are emitted.
C13_TitleChecks ==
  Returned =>
    /\ HasIssue(MsgTitleTooLong) <=> Len(metadata.title) > 70
    /\ HasIssue(MsgTitleTooShort) <=> Len(metadata.title) < 20
    /\ HasIssue(MsgTitleWords) <=> Len(split(metadata.title)) < 5
    /\ ~(HasIssue(MsgTitleTooLong) /\ HasIssue(MsgTitleTooShort))
    /\ Cardinality({i \in 1..Len(issues) : issues[i].field = "title"}) <= 2

\* A call has returned with the too-long error and the word-count warning.
C13_Witness == Returned /\ HasIssue(MsgTitleTooLong) /\ HasIssue(MsgTitleWords)

DescriptionStep ==
  pc = "description" =>
    IF Words(metadata.description) < 10 THEN score' = score - 20
    ELSE score' = score /\ issues' = issues

\* C14: the sparse-description warning is emitted and 10 is subtracted exactly
\* when the description has fewer than 10 words, a word being a maximal run of
\* characters that are not white space.
C14_Description ==
  /\ [](Returned =>
          /\ Words(metadata.description) < 10 <=> IssuesWith(MsgDescription) # {}
          /\ \A i \in IssuesWith(MsgDescription) : issues[i].type = "warning")
  /\ [][DescriptionStep]_vars

\* S, the keywords of fewer than three characters once trimmed, in input order.
S == SelectSeq(metadata.keywords, LAMBDA k : Len(trim(k)) < 3)

TooShortStep ==
  pc = "tooShort" =>
    /\ score' = score
    /\ IF Len(S) > 3
         THEN Len(recommendations') = Len(recommendations) + 1
         ELSE recommendations' = recommendations /\ issues' = issues

\* C15: an info issue is emitted exactly when more than 3 keywords have a
\* trimmed length below 3; it cites their number and the first of them, the
\* score is left alone and one recommendation is appended.
C15_DegenerateKeywords ==
  /\ [](Returned =>
          /\ Len(S) > 3 <=> IssuesWith(MsgTooShort) # {}
          /\ Cardinality(IssuesWith(MsgTooShort)) <= 1
          /\ \A i \in IssuesWith(MsgTooShort) :
               /\ issues[i].type = "info"
               /\ issues[i].message.nums = <<Len(S)>>
               /\ issues[i].message.strs = <<S[1]>>)
  /\ [][TooShortStep]_vars

IsAIStep ==
  pc = "isAI" =>
    /\ score' = score - (IF metadata.isAI THEN 0 ELSE 20)
    /\ metadata.isAI => issues' = issues

\* C16: a warning on the field isAI is emitted and 10 is subtracted exactly
\* when isAI is false.
C16_AIDisclosure ==
  /\ [](Returned =>
          /\ ~metadata.isAI <=> IssuesWith(MsgIsAI) # {}
          /\ Cardinality(IssuesWith(MsgIsAI)) <= 1
          /\ \A i \in IssuesWith(MsgIsAI) :
               issues[i].type = "warning" /\ issues[i].field = "isAI")
  /\ [][IsAIStep]_vars

\* A call with isAI false has returned with the warning.
C16_Witness == Returned /\ ~metadata.isAI /\ HasIssue(MsgIsAI)

\* The token the author is expected to contain.
Placeholder == <<"{","{","a","u","t","h","o","r","}","}">>

AuthorStep == pc = "author" => score' = score

\* C17: an info issue on the field author is emitted exactly when the author
\* does not contain "{{author}}", and it leaves the score alone.
C17_AuthorPlaceholder ==
  /\ [](Returned =>
          /\ ~Occurs(Placeholder, metadata.author) <=> IssuesWith(MsgAuthor) # {}
          /\ Cardinality(IssuesWith(MsgAuthor)) <= 1
          /\ \A i \in IssuesWith(MsgAuthor) :
               issues[i].type = "info" /\ issues[i].field = "author")
  /\ [][AuthorStep]_vars

\* A call with the author "Studio" has returned with the info issue and the
\* full score.
C17_Witness ==
  /\ Returned
  /\ metadata.author = <<"S","t","u","d","i","o">>
  /\ HasIssue(MsgAuthor)
  /\ result[1].score = 100

\* The place of a rule in the order title, description, keyword count,
\* duplicates, degenerate keywords, compliance, isAI, author.
RuleRank(text) ==
  CASE text \in {MsgTitleTooLong, MsgTitleTooShort, MsgTitleWords} -> 1
    [] text = MsgDescription -> 2
    [] text \in {MsgKeywordsMissing, MsgKeywordsExtra} -> 3
    [] text = MsgDuplicates -> 4
    [] text = MsgTooShort -> 5
    [] text = MsgBanned -> 6
    [] text = MsgIsAI -> 7
    [] text = MsgAuthor -> 8

\* C18: in every result no issue of a later rule precedes an issue of an
\* earlier rule in the order title, description, keywords (count, duplicates,
\* degenerate), compliance, technical (isAI, author).
C18_IssueOrder ==
  Returned =>
    \A i \in 1..Len(result[1].issues) : \A j \in i..Len(result[1].issues) :
      RuleRank(result[1].issues[i].message.text) <= RuleRank(result[1].issues[j].message.text)

\* A result holds issues of the title, description, keyword, compliance and
\* technical rules.
C18_Witness ==
  /\ Returned
  /\ {RuleRank(result[1].issues[i].message.text) : i \in 1..Len(result[1].issues)}
       = {1, 2, 3, 6, 7, 8}

\* The conditions of only four rules hold: title too long, five keywords
\* missing, no AI flag, no author placeholder.
OnlyFourRules ==
  /\ L > 70
  /\ Words(metadata.title) >= 5
  /\ Words(metadata.description) >= 10
  /\ K = 25
  /\ D = 0
  /\ Len(S) <= 3
  /\ ~metadata.isAI
  /\ ~Occurs(Placeholder, metadata.author)
  /\ F = {}

\* C19: on such an input the result has exactly four issues (the title error,
\* the keyword error, the isAI warning and the author info, in that order)
\* and the score 68.
C19_Scenario ==
  (Returned /\ OnlyFourRules) =>
    /\ Len(result[1].issues) = 4
    /\ result[1].issues[1].message.text = MsgTitleTooLong /\ result[1].issues[1].type = "error"
    /\ result[1].issues[2].message.text = MsgKeywordsMissing /\ result[1].issues[2].type = "error"
    /\ result[1].issues[3].message.text = MsgIsAI /\ result[1].issues[3].type = "warning"
    /\ result[1].issues[4].message.text = MsgAuthor /\ result[1].issues[4].type = "info"
    /\ result[1].score = 68

\* A call on such an input has returned.
C19_Witness == Returned /\ OnlyFourRules

\* C20: a call leaves its metadata as it was passed, and the issues and
\* recommendations it returns are the arrays it built itself, empty when it
\* started.
C20_InputUntouched ==
  /\ [][pc # "done" => metadata' = metadata]_vars
  /\ [](pc = "title" => issues = << >> /\ recommendations = << >>)
  /\ [](Returned => result[1].issues = issues /\ result[1].recommendations = recommendations)

\* A call after a saved call on other metadata has returned; both results
\* hold recommendations.
C20_Witness ==
  /\ Returned
  /\ saved # << >>
  /\ saved[1].metadata # metadata
  /\ Len(saved[1].result.recommendations) > 0
  /\ Len(result[1].recommendations) > 0

\* C21: on every input, the empty strings and the empty keyword list among
\* them, the call reaches its return statement, and what it returns is a
\* complete result (score, issues and recommendations); nothing is returned
\* before that.
C21_Total ==
  /\ <>Returned
  /\ [](Returned =>
          /\ Len(result) = 1
          /\ DOMAIN result[1] = {"score", "issues", "recommendations"}
          /\ result[1].score \in 0..100
          /\ DOMAIN result[1].issues = 1..Len(issues)
          /\ DOMAIN result[1].recommendations = 1..Len(recommendations))
  /\ [](~Returned => result = << >>)

\* A call on the empty title, description, keyword list and author has returned.
C21_Witness ==
  /\ Returned
  /\ metadata.title = << >> /\ metadata.description = << >>
  /\ metadata.keywords = << >> /\ metadata.author = << >>
  /\ Len(result[1].issues) > 0

\* What a call on m returns when nothing else runs: the issues and the
\* recommendations of the rules whose conditions m meets, in rule order, and
\* 100 less their penalties, rounded and clamped.
AloneTitle(m) ==
  (IF titleTooLong(m)
     THEN <<Issue("error", MsgTitleTooLong, <<titleLen(m)>>, << >>, "title")>>
     ELSE IF titleTooShort(m)
       THEN <<Issue("warning", MsgTitleTooShort, << >>, << >>, "title")>>
       ELSE << >>)
  \o (IF titleWordsLow(m)
        THEN <<Issue("warning", MsgTitleWords, << >>, << >>, "title")>> ELSE << >>)
  \o (IF descWords(m) < 10
        THEN <<Issue("warning", MsgDescription, << >>, << >>, "description")>> ELSE << >>)

AloneKeywords(m) ==
  LET count == keywordCount(m)
      diff == count - Cardinality(uniqueKeywords(m))
      short == tooShortKeywords(m)
      found == filterBanned(m)
  IN (IF tooFewKeywords(count)
        THEN <<Issue("error", MsgKeywordsMissing, <<count>>, << >>, "keywords")>>
        ELSE IF tooManyKeywords(count)
          THEN <<Issue("error", MsgKeywordsExtra, <<count>>, << >>, "keywords")>>
          ELSE << >>)
     \o (IF diff # 0
           THEN <<Issue("warning", MsgDuplicates, <<diff>>, << >>, "keywords")>> ELSE << >>)
     \o (IF Len(short) > 3
           THEN <<Issue("info", MsgTooShort, <<Len(short)>>, <<short[1]>>, "keywords")>>
           ELSE << >>)
     \o (IF Len(found) > 0
           THEN <<Issue("error", MsgBanned, << >>, found, "keywords")>> ELSE << >>)

AloneTechnical(m) ==
  (IF ~m.isAI THEN <<Issue("warning", MsgIsAI, << >>, << >>, "isAI")>> ELSE << >>)
  \o (IF ~includes(m.author, authorPlaceholder)
        THEN <<Issue("info", MsgAuthor, << >>, << >>, "author")>> ELSE << >>)

AlonePenalty(m) ==
  LET count == keywordCount(m)
      diff == count - Cardinality(uniqueKeywords(m))
  IN (IF titleTooLong(m) THEN 30 ELSE IF titleTooShort(m) THEN 10 ELSE 0)
     + (IF titleWordsLow(m) THEN 10 ELSE 0)
     + (IF descWords(m) < 10 THEN 20 ELSE 0)
     + (IF count < 30 THEN (30 - count) * 3 ELSE IF count > 50 THEN (count - 50) * 4 ELSE 0)
     + diff * 6
     + 50 * Len(filterBanned(m))
     + (IF ~m.isAI THEN 20 ELSE 0)

AloneRecommendations(m) ==
  LET count == keywordCount(m)
      found == filterBanned(m)
  IN (IF count < 30 THEN <<Recommendation(RecAddKeywords, <<30 - count>>, << >>)>>
      ELSE IF count > 50 THEN <<Recommendation(RecRemoveKeywords, <<count - 50>>, << >>)>>
      ELSE << >>)
     \o (IF count # Cardinality(uniqueKeywords(m))
           THEN <<Recommendation(RecDuplicates, << >>, << >>)>> ELSE << >>)
     \o (IF Len(tooShortKeywords(m)) > 3
           THEN <<Recommendation(RecTooShort, << >>, << >>)>> ELSE << >>)
     \o (IF Len(found) > 0 THEN <<Recommendation(RecBanned, << >>, found)>> ELSE << >>)

Alone(m) ==
  [score |-> Nearest(ClampHalf(200 - AlonePenalty(m))),
   issues |-> AloneTitle(m) \o AloneKeywords(m) \o AloneTechnical(m),
   recommendations |-> AloneRecommendations(m)]

\* C22: with two callers whose steps interleave in any way, each caller is
\* returned what a call on its own metadata returns when it runs alone.
C22_Reentrant ==
  /\ Returned => result[1] = Alone(metadata)
  /\ (other # << >> /\ other[1].pc = "done") => other[1].result[1] = Alone(other[1].metadata)

\* Both callers are in the middle of their calls, on different metadata, and
\* both have issues in their arrays.
C22_Witness ==
  /\ other # << >>
  /\ pc = "compliance" /\ other[1].pc = "duplicates"
  /\ metadata # other[1].metadata
  /\ Len(issues) > 0 /\ Len(other[1].issues) > 0

\* The issues of a result that are errors or warnings.
Serious(r) == {i \in 1..Len(r.issues) : r.issues[i].type \in {"error", "warning"}}

\* C23: the returned score is 100 exactly when the result holds no error and
\* no warning; info issues subtract nothing, and the smallest penalty, that
\* of one missing keyword, gives 99.
C23_FullScore ==
  Returned =>
    /\ result[1].score = 100 <=> Serious(result[1]) = {}
    /\ (K = 29 /\ Cardinality(Serious(result[1])) = 1) => result[1].score = 99

\* A call has returned 99 for a keyword shortfall of 1 and an info issue.
C23_Witness ==
  /\ Returned
  /\ K = 29 /\ Cardinality(Serious(result[1])) = 1 /\ HasIssue(MsgAuthor)
  /\ result[1].score = 99

\* C24: no result holds both title-length issues, none holds both
\* keyword-count errors, and so a result has at most 9 issues and at most
\* 4 recommendations.
C24_AtMostNine ==
  Returned =>
    /\ ~(HasIssue(MsgTitleTooLong) /\ HasIssue(MsgTitleTooShort))
    /\ ~(HasIssue(MsgKeywordsMissing) /\ HasIssue(MsgKeywordsExtra))
    /\ Len(result[1].issues) <= 9
    /\ Len(result[1].recommendations) <= 4

\* A result with 9 issues and 4 recommendations.
C24_Witness ==
  Returned /\ Len(result[1].issues) = 9 /\ Len(result[1].recommendations) = 4

\* The recommendation that goes with a keyword issue.
RecFor(text) ==
  CASE text = MsgKeywordsMissing -> RecAddKeywords
    [] text = MsgKeywordsExtra -> RecRemoveKeywords
    [] text = MsgDuplicates -> RecDuplicates
    [] text = MsgTooShort -> RecTooShort
    [] text = MsgBanned -> RecBanned

\* The issues of a result whose field is 'keywords', in order.
KeywordIssues(r) == SelectSeq(r.issues, LAMBDA i : i.field = "keywords")

\* C25: a recommendation is appended exactly in the steps that append an
\* issue on the field 'keywords'; a result has as many recommendations as
\* such issues, in the same order, and the title, description, isAI and
\* author rules append none.
C25_Recommendations ==
  /\ [](Returned =>
          LET kw == KeywordIssues(result[1])
          IN /\ Len(result[1].recommendations) = Len(kw)
             /\ \A j \in 1..Len(kw) :
                  result[1].recommendations[j].text = RecFor(kw[j].message.text))
  /\ [][(Len(recommendations') = Len(recommendations) + 1)
          <=> (/\ Len(issues') = Len(issues) + 1
               /\ issues'[Len(issues')].field = "keywords")]_vars
  /\ [][(pc \in {"title", "titleWords", "description", "isAI", "author"})
          => recommendations' = recommendations]_vars

\* A result whose recommendations are those of the shortfall, the
\* duplicates, the short keywords and the brands, beside issues of the
\* title, isAI and author rules.
C25_Witness ==
  /\ Returned
  /\ [j \in 1..Len(result[1].recommendations) |-> result[1].recommendations[j].text]
       = <<RecAddKeywords, RecDuplicates, RecTooShort, RecBanned>>
  /\ HasIssue(MsgTitleWords) /\ HasIssue(MsgIsAI) /\ HasIssue(MsgAuthor)

\* C26: the compliance error carries the field 'keywords', also when no
\* keyword holds any of the terms found.
C26_ComplianceField ==
  Returned =>
    \A i \in IssuesWith(MsgBanned) :
      /\ result[1].issues[i].field = "keywords"
      /\ result[1].issues[i].type = "error"

\* "iphone" was found in the title alone: the description and the keywords
\* hold no denylist term.
C26_Witness ==
  /\ Returned
  /\ metadata.title = AmazingIPhonePhoto
  /\ metadata.description = Text(0, 10, 20, 0)
  /\ metadata.keywords = Keywords(<< >>, 30)
  /\ foundBanned = << <<"i","p","h","o","n","e">> >>
  /\ HasIssue(MsgBanned)

\* C27: what the sanitising generateMetadata returns has no keyword twice,
\* at most 50 keywords, a boolean isAI and an author that is not empty, and
\* the validator run on it reports no keyword excess.
C27_Sanitised ==
  (parsed # << >> /\ pc # "sanitize") =>
    /\ \A i, j \in 1..Len(metadata.keywords) :
         metadata.keywords[i] = metadata.keywords[j] => i = j
    /\ Len(metadata.keywords) <= 50
    /\ metadata.isAI \in BOOLEAN
    /\ metadata.author # << >>
    /\ Returned => ~HasIssue(MsgKeywordsExtra)

\* A payload of 54 keywords, two of them repeated, was cut to 50; they still
\* hold "cat" and "Cat ", which the validator has reported as a duplicate.
C27_Witness ==
  /\ Returned
  /\ parsed # << >>
  /\ Len(parsed[1].keywords.array) = 54
  /\ K = 50
  /\ HasIssue(MsgDuplicates)

-----------------------------------------------------------------------------
-----------------------------------------------------------------------------
(* C29: the step in which an answer to a metadata or quality request is    *)
(* taken in changes no image but the one the request was issued for.  The  *)
(* history keeps its ids in their order, so a deleted image does not come  *)
(* back; if the image is gone nothing changes, and a current image with    *)
(* another id is left as it is.                                            *)
Answers == {"autoMetadata", "generateMetadata", "assessImageQuality"}

C29_OnlyItsImage ==
  [][\A c \in Calls :
       (c.fn \in Answers /\ BagIn(c, pending) /\ pending' = settling(c)) =>
         /\ [i \in 1..Len(history') |-> history'[i].id] = [i \in 1..Len(history) |-> history[i].id]
         /\ \A i \in 1..Len(history) : history[i].id # c.id => history'[i] = history[i]
         /\ c.id \notin ids(history) => history' = history /\ currentImage' = currentImage
         /\ (currentImage = << >> \/ currentImage[1].id # c.id) => currentImage' = currentImage
         /\ lastSettled'[1].outcome = "resolved" =>
              \A i \in 1..Len(history) :
                history[i].id = c.id =>
                  /\ c.fn = "assessImageQuality" => history'[i].qualityAssessment \in Assessments
                  /\ c.fn # "assessImageQuality" => history'[i].metadata \in Metadatas]_vars

\* An answer has just been taken in for an image that was deleted while the
\* request was under way, with another image current.
C29_Witness ==
  /\ lastSettled # << >>
  /\ lastSettled[1].outcome = "resolved"
  /\ lastSettled[1].call.fn \in Answers
  /\ lastSettled[1].call.id \notin ids(history)
  /\ currentImage # << >>
  /\ currentImage[1].metadata = undefined
  /\ currentImage[1].qualityAssessment = undefined

-----------------------------------------------------------------------------
(* C30: a busy flag that is set is cleared again, in the step in which the *)
(* external call of its handler resolves or rejects; and when the metadata *)
(* generation that follows an image generation fails, the error message,   *)
(* the history and the current image stay as they are.                     *)
Settles(c) == BagIn(c, pending) /\ pending' = settling(c)

C30_BusyFlagsReset ==
  /\ isGenerating ~> ~isGenerating
  /\ isGeneratingMetadata ~> ~isGeneratingMetadata
  /\ isAnalyzingQuality ~> ~isAnalyzingQuality
  /\ [][\A c \in Calls :
          /\ (c.fn = "generateImage" /\ Settles(c)) => ~isGenerating'
          /\ (c.fn = "generateMetadata" /\ Settles(c)) => ~isGeneratingMetadata'
          /\ (c.fn = "assessImageQuality" /\ Settles(c)) => ~isAnalyzingQuality'
          /\ (c.fn = "autoMetadata" /\ Settles(c) /\ lastSettled'[1].outcome = "rejected") =>
               /\ error' = error
               /\ history' = history
               /\ currentImage' = currentImage]_vars

\* The automatic metadata generation for the image just generated has
\* failed: the image is there, without metadata, and no error is shown.
C30_Witness ==
  /\ lastSettled # << >>
  /\ lastSettled[1].outcome = "rejected"
  /\ lastSettled[1].call.fn = "autoMetadata"
  /\ currentImage # << >>
  /\ currentImage[1].id = lastSettled[1].call.id
  /\ currentImage[1].metadata = undefined
  /\ history[1] = currentImage[1]
  /\ error = null
  /\ ~isGenerating

====
